---- MODULE Spec2Model ----
(***************************************************************************)
(* DaysCLI (src/days.cpp): one run of main() against the events file        *)
(* ~/.days/events.csv, from the point where the events path is resolved     *)
(* (line 211) to the return of main.                                        *)
(*                                                                          *)
(* Strings are sequences of one-character strings, so that length, split,   *)
(* find and numeric conversion are computed the way the code computes them. *)
(***************************************************************************)
EXTENDS Integers, Sequences, FiniteSets, TLC

VARIABLES
    argv,        \* the command line, argv[1] is the program name (C argv[0])
    today,       \* the system date read at lines 173 and 239
    file,        \* events.csv as its sequence of lines
    stored,      \* history: events.csv as it was when main started
    tempFile,    \* tempFile.csv: [exists, lines]
    document,    \* the three columns read at lines 217-220
    events,      \* vector<Event> events (line 222)
    i,           \* index of the loading loop (line 223)
    k,           \* position of the range-for over events (line 246), 1-based
    j,           \* number of lines of events.csv consumed by std::getline (line 365)
    out,         \* lines written to std::cout
    err,         \* lines written to std::cerr
    pc,          \* position of main
    buf,         \* SpecParse: the argument of one getDateFromString call
    parsed       \* SpecParse: what that call returned

vars == <<argv, today, file, stored, tempFile, document, events, i, k, j,
          out, err, pc, buf, parsed>>

(***************************************************************************)
(* Text helpers                                                             *)
(***************************************************************************)
Digits == <<"0", "1", "2", "3", "4", "5", "6", "7", "8", "9">>

IsDigit(c) == \E n \in 1..10 : Digits[n] = c

DigitVal(c) == (CHOOSE n \in 1..10 : Digits[n] = c) - 1

\* std::isspace, for the characters the model uses
IsSpace(c) == c = " "

Tail2(s, n) == SubSeq(s, n, Len(s))

\* index of the first occurrence of character c in s, 0 when there is none
IndexOf(s, c) ==
    IF \E n \in 1..Len(s) : s[n] = c
    THEN CHOOSE n \in 1..Len(s) : s[n] = c /\ \A m \in 1..(n - 1) : s[m] # c
    ELSE 0

RECURSIVE GetlineFields(_, _)
\* a mutant of GetlineFields: the empty text after a final delimiter is a field
GetlineFieldsKeepTrailing(s, delim) ==
    LET n == IndexOf(s, delim)
    IN  IF n = 0 THEN <<s>>
        ELSE <<SubSeq(s, 1, n - 1)>> \o
             (IF n = Len(s) THEN << <<>> >> ELSE GetlineFields(Tail2(s, n + 1), delim))

\* The fields a loop `while (std::getline(stream, part, delim))` collects:
\* a field ends at each delimiter; the loop stops when nothing is left to
\* read, so the empty text after a final delimiter is not a field.
GetlineFields(s, delim) ==
    IF s = <<>> THEN <<>>
    ELSE LET n == IndexOf(s, delim)
         IN  IF n = 0 THEN <<s>>
             ELSE <<SubSeq(s, 1, n - 1)>> \o GetlineFields(Tail2(s, n + 1), delim)

\* a mutant of StrFind: x is looked for at the start of the text only
StrFindPrefixOnly(text, x) ==
    IF Len(x) <= Len(text) /\ SubSeq(text, 1, Len(x)) = x THEN 1 ELSE 0

\* std::string::find(x): 1-based position of the first occurrence, 0 for npos
StrFind(text, x) ==
    LET hits == {p \in 1..(Len(text) - Len(x) + 1) : SubSeq(text, p, p + Len(x) - 1) = x}
    IN  IF hits = {} THEN 0 ELSE CHOOSE p \in hits : \A q \in hits : p <= q

\* decimal digits of a natural number
RECURSIVE NatToStr(_)
NatToStr(n) ==
    IF n < 10 THEN <<Digits[n + 1]>> ELSE NatToStr(n \div 10) \o <<Digits[(n % 10) + 1]>>

\* operator<<(int) under setfill('0') and setw(w): the sign counts in the width
RECURSIVE ZeroPad(_, _)
ZeroPad(s, w) == IF Len(s) >= w THEN s ELSE ZeroPad(<<"0">> \o s, w)

IntToStr(n) == IF n < 0 THEN <<"-">> \o NatToStr(-n) ELSE NatToStr(n)

(***************************************************************************)
(* Numeric conversion: std::stoi / std::stoul (strtol / strtoul, base 10)   *)
(***************************************************************************)
RECURSIVE SkipSpaces(_)
SkipSpaces(s) == IF s # <<>> /\ IsSpace(s[1]) THEN SkipSpaces(Tail(s)) ELSE s

SkipSign(s) == IF s # <<>> /\ s[1] = "+" THEN Tail(s) ELSE s

RECURSIVE DigitPrefix(_)
DigitPrefix(s) ==
    IF s # <<>> /\ IsDigit(s[1]) THEN <<s[1]>> \o DigitPrefix(Tail(s)) ELSE <<>>

RECURSIVE DigitsValue(_, _)
DigitsValue(s, acc) ==
    IF s = <<>> THEN acc ELSE DigitsValue(Tail(s), acc * 10 + DigitVal(s[1]))

\* Leading white space and a sign are skipped, the longest digit prefix is
\* converted and whatever follows it is ignored.  No digit: invalid_argument
\* (ok = FALSE).  out_of_range cannot happen here: the text is a field of a
\* 10-character string, so it has at most 8 digits.  A '-' sign cannot occur
\* either: the fields come from a split on '-'.
StrToNumber(s) ==
    LET ds == DigitPrefix(SkipSign(SkipSpaces(s)))
    IN  IF ds = <<>> THEN [ok |-> FALSE, val |-> 0]
        ELSE [ok |-> TRUE, val |-> DigitsValue(ds, 0)]

stoi(s) == StrToNumber(s)

stoul(s) == StrToNumber(s)

(***************************************************************************)
(* std::chrono::year_month_day                                              *)
(***************************************************************************)
\* chrono::year holds a short, chrono::month and chrono::day an unsigned char.
\* For an argument outside that range the standard leaves the value held
\* unspecified; libstdc++ and libc++ store the converted argument, which is
\* what is modelled.  Texts whose fields are in range do not depend on it.
ToShort(n) == LET m == n % 65536 IN IF m >= 32768 THEN m - 65536 ELSE m

ToUChar(n) == n % 256

IsLeap(y) == y % 4 = 0 /\ (y % 100 # 0 \/ y % 400 = 0)

LastDayOfMonth(y, m) ==
    IF m = 2 THEN (IF IsLeap(y) THEN 29 ELSE 28)
    ELSE IF m \in {4, 6, 9, 11} THEN 30 ELSE 31

\* year_month_day::ok()
YmdOk(d) ==
    /\ d.y >= -32767 /\ d.y <= 32767
    /\ d.m >= 1 /\ d.m <= 12
    /\ d.d >= 1 /\ d.d <= LastDayOfMonth(d.y, d.m)

Ymd(y, m, d) == [y |-> y, m |-> m, d |-> d]

\* operator< and operator<= of year_month_day: year, then month, then day
YmdLess(a, b) ==
    \/ a.y < b.y
    \/ a.y = b.y /\ a.m < b.m
    \/ a.y = b.y /\ a.m = b.m /\ a.d < b.d

YmdLessEq(a, b) == a = b \/ YmdLess(a, b)

\* sys_days{ymd}: days since 1970-01-01 (days_from_civil)
DaysFromCivil(d) ==
    LET y   == IF d.m <= 2 THEN d.y - 1 ELSE d.y
        era == y \div 400
        yoe == y - era * 400
        mp  == IF d.m > 2 THEN d.m - 3 ELSE d.m + 9
        doy == (153 * mp + 2) \div 5 + d.d - 1
        doe == yoe * 365 + yoe \div 4 - yoe \div 100 + doy
    IN  era * 146097 + doe - 719468

\* std::optional<year_month_day>
NullOpt == [has_value |-> FALSE, value |-> Ymd(0, 0, 0)]

Some(d) == [has_value |-> TRUE, value |-> d]

\* optional<T> compared with a T: an empty optional is less than every value
OptGreater(opt, v) == opt.has_value /\ YmdLess(v, opt.value)

\* a mutant of OptLessEq: < in place of <=
OptLessEqStrict(opt, v) == (~opt.has_value) \/ YmdLess(opt.value, v)

OptLessEq(opt, v) == (~opt.has_value) \/ YmdLessEq(opt.value, v)

OptNotEqual(opt, v) == (~opt.has_value) \/ opt.value # v

(***************************************************************************)
(* getDateFromString (lines 26-81)                                          *)
(***************************************************************************)
ConversionError(what) ==
    <<"c", "o", "n", "v", "e", "r", "s", "i", "o", "n", " ",
      "e", "r", "r", "o", "r", ":", " ">> \o what

WhatStoul == <<"s", "t", "o", "u", "l">>

WhatStoi == <<"s", "t", "o", "i">>

\* [value: the optional returned, cerr: the lines written to std::cerr]
getDateFromString(b) ==
    LET parts == GetlineFields(b, "-")
    IN  IF Len(b) # 10 THEN [value |-> NullOpt, cerr |-> <<>>]
        ELSE IF Len(parts) # 3 THEN [value |-> NullOpt, cerr |-> <<>>]
        ELSE LET year  == stoul(parts[1])
                 month == stoi(parts[2])
                 day   == stoi(parts[3])
                 result == Ymd(ToShort(year.val), ToUChar(month.val), ToUChar(day.val))
             IN  IF ~year.ok
                 THEN [value |-> NullOpt, cerr |-> <<ConversionError(WhatStoul)>>]
                 ELSE IF ~month.ok \/ ~day.ok
                 THEN [value |-> NullOpt, cerr |-> <<ConversionError(WhatStoi)>>]
                 ELSE IF YmdOk(result)
                 THEN [value |-> Some(result), cerr |-> <<>>]
                 ELSE [value |-> NullOpt, cerr |-> <<>>]

\* getStringFromDate (lines 100-110)
getStringFromDate(date) ==
    ZeroPad(IntToStr(date.y), 4) \o <<"-">> \o
    ZeroPad(NatToStr(date.m), 2) \o <<"-">> \o
    ZeroPad(NatToStr(date.d), 2)


(***************************************************************************)
(* String literals of main                                                  *)
(***************************************************************************)
CmdList == <<"l", "i", "s", "t">>

CmdAdd == <<"a", "d", "d">>

CmdDelete == <<"d", "e", "l", "e", "t", "e">>

OptToday == <<"-", "-", "t", "o", "d", "a", "y">>

OptBeforeDate == <<"-", "-", "b", "e", "f", "o", "r", "e", "-", "d", "a", "t", "e">>

OptAfterDate == <<"-", "-", "a", "f", "t", "e", "r", "-", "d", "a", "t", "e">>

OptDate == <<"-", "-", "d", "a", "t", "e">>

OptCategories == <<"-", "-", "c", "a", "t", "e", "g", "o", "r", "i", "e", "s">>

OptExclude == <<"-", "-", "e", "x", "c", "l", "u", "d", "e">>

OptNoCategory == <<"-", "-", "n", "o", "-", "c", "a", "t", "e", "g", "o", "r", "y">>

OptCategory == <<"-", "-", "c", "a", "t", "e", "g", "o", "r", "y">>

OptDescription == <<"-", "-", "d", "e", "s", "c", "r", "i", "p", "t", "i", "o", "n">>

OptDryRun == <<"-", "-", "d", "r", "y", "-", "r", "u", "n">>

MissingDate == <<"M", "i", "s", "s", "i", "n", "g", " ", "d", "a", "t", "e", ".">>

InvalidOptions == <<"I", "n", "v", "a", "l", "i", "d", " ", "o", "p", "t", "i", "o", "n", "s">>

InvalidCommand == <<"I", "n", "v", "a", "l", "i", "d", " ", "c", "o", "m", "m", "a", "n", "d", ".">>

DryRunNotice ==
    <<"D", "r", "y", " ", "r", "u", "n", ",", " ", "w", "o", "u", "l", "d",
      " ", "d", "e", "l", "e", "t", "e", ":">>

BadDateAtRow == <<"b", "a", "d", " ", "d", "a", "t", "e", " ", "a", "t", " ", "r", "o", "w", " ">>

ColDate == <<"d", "a", "t", "e">>

ColCategory == <<"c", "a", "t", "e", "g", "o", "r", "y">>

ColDescription == <<"d", "e", "s", "c", "r", "i", "p", "t", "i", "o", "n">>

(***************************************************************************)
(* The command line (lines 188-192)                                         *)
(***************************************************************************)
argc == Len(argv)

\* argv[n] of the C program, for n < argc
ArgAt(n) == argv[n + 1]

\* (argc > n) ? std::string(argv[n]) : ""
ArgOrEmpty(n) == IF argc > n THEN ArgAt(n) ELSE <<>>

command == ArgOrEmpty(1)

option1 == ArgOrEmpty(2)

parameter1 == ArgOrEmpty(3)

option2 == ArgOrEmpty(4)

parameter2 == ArgOrEmpty(5)

(***************************************************************************)
(* Reading events.csv (lines 217-220, rapidcsv)                             *)
(***************************************************************************)
\* the cells of one line: every comma separates two cells
RECURSIVE CsvCells(_)
CsvCells(line) ==
    LET n == IndexOf(line, ",")
    IN  IF n = 0 THEN <<line>>
        ELSE <<SubSeq(line, 1, n - 1)>> \o CsvCells(Tail2(line, n + 1))

\* document.GetColumn<string>(name): the first line names the columns
GetColumn(lines, name) ==
    LET header == CsvCells(lines[1])
        col    == CHOOSE c \in 1..Len(header) : header[c] = name
    IN  [r \in 1..(Len(lines) - 1) |-> CsvCells(lines[r + 1])[col]]

ReadDocument ==
    /\ pc = "start"
    /\ document' = [dateStrings        |-> GetColumn(file, ColDate),
                    categoryStrings    |-> GetColumn(file, ColCategory),
                    descriptionStrings |-> GetColumn(file, ColDescription)]
    /\ i' = 0
    /\ pc' = "load"
    /\ UNCHANGED <<argv, today, file, stored, tempFile, events, k, j, out, err, buf, parsed>>

(***************************************************************************)
(* The loading loop (lines 222-237)                                         *)
(***************************************************************************)
Event(timestamp, category, description) ==
    [timestamp |-> timestamp, category |-> category, description |-> description]

BadDateDiagnostic(row, raw) == BadDateAtRow \o NatToStr(row) \o <<":", " ">> \o raw

\* a mutant of LoadRow: a bad date ends the loading loop
LoadRowStopsAtBadDate ==
    /\ pc = "load"
    /\ i < Len(document.dateStrings)
    /\ LET date == getDateFromString(document.dateStrings[i + 1])
       IN  IF ~date.value.has_value
           THEN /\ err' = err \o date.cerr \o
                          <<BadDateDiagnostic(i, document.dateStrings[i + 1])>>
                /\ i' = Len(document.dateStrings)
                /\ UNCHANGED events
           ELSE /\ events' = Append(events, Event(date.value.value,
                                                  document.categoryStrings[i + 1],
                                                  document.descriptionStrings[i + 1]))
                /\ err' = err \o date.cerr
                /\ i' = i + 1
    /\ UNCHANGED <<argv, today, file, stored, tempFile, document, k, j, out, pc, buf, parsed>>

\* one iteration of the for loop at line 223
LoadRow ==
    /\ pc = "load"
    /\ i < Len(document.dateStrings)
    /\ LET date == getDateFromString(document.dateStrings[i + 1])
       IN  IF ~date.value.has_value
           THEN /\ err' = err \o date.cerr \o
                          <<BadDateDiagnostic(i, document.dateStrings[i + 1])>>
                /\ UNCHANGED events
           ELSE /\ events' = Append(events, Event(date.value.value,
                                                  document.categoryStrings[i + 1],
                                                  document.descriptionStrings[i + 1]))
                /\ err' = err \o date.cerr
    /\ i' = i + 1
    /\ UNCHANGED <<argv, today, file, stored, tempFile, document, k, j, out, pc, buf, parsed>>

\* the loading loop has ended: main is at line 242
Loaded == pc = "load" /\ i >= Len(document.dateStrings)

\* argc <= 1: main returns 0 without output
NoCommand ==
    /\ Loaded
    /\ argc <= 1
    /\ pc' = "done"
    /\ UNCHANGED <<argv, today, file, stored, tempFile, document, events, i, k, j,
                   out, err, buf, parsed>>

(***************************************************************************)
(* list (lines 244-342)                                                     *)
(***************************************************************************)
\* delta of line 248: days from today to the event
Delta(event) == DaysFromCivil(event.timestamp) - DaysFromCivil(today)

\* the line of lines 323-340: operator<< of Event (lines 128-135), " - ",
\* and the distance to today
EventLine(event) ==
    getStringFromDate(event.timestamp) \o <<":", " ">> \o event.description \o
    <<" ", "(">> \o event.category \o <<")">> \o <<" ", "-", " ">> \o
    (IF Delta(event) < 0
     THEN NatToStr(-Delta(event)) \o <<" ", "d", "a", "y", "s", " ", "a", "g", "o">>
     ELSE IF Delta(event) > 0
     THEN <<"i", "n", " ">> \o NatToStr(Delta(event)) \o <<" ", "d", "a", "y", "s">>
     ELSE <<"t", "o", "d", "a", "y">>)

Skip(cerr) == [act |-> "continue", cerr |-> cerr]

Stop == [act |-> "break", cerr |-> <<>>]

Keep(cerr) == [act |-> "emit", cerr |-> cerr]

\* --before-date (lines 254-271)
BeforeDateDecision(event) ==
    IF argc > 3 /\ argc # 5
    THEN LET range == argc = 6 /\ option2 = OptAfterDate
             d2    == getDateFromString(parameter2)
             d1    == getDateFromString(parameter1)
         IN  IF range /\ OptGreater(d2.value, event.timestamp)
             THEN Skip(d2.cerr)
             ELSE IF OptLessEq(d1.value, event.timestamp)
             THEN Skip((IF range THEN d2.cerr ELSE <<>>) \o d1.cerr)
             ELSE Keep((IF range THEN d2.cerr ELSE <<>>) \o d1.cerr)
    ELSE Stop

\* --after-date (lines 272-284)
AfterDateDecision(event) ==
    IF argc > 3
    THEN LET d1 == getDateFromString(parameter1)
         IN  IF OptGreater(d1.value, event.timestamp) THEN Skip(d1.cerr) ELSE Keep(d1.cerr)
    ELSE Stop

\* --date (lines 285-289)
DateDecision(event) ==
    LET d1 == getDateFromString(parameter1)
    IN  IF OptNotEqual(d1.value, event.timestamp) THEN Skip(d1.cerr) ELSE Keep(d1.cerr)

\* --categories (lines 290-315)
CategoriesDecision(event) ==
    LET multipleCategories == IndexOf(parameter1, ",") # 0
    IN  IF ~multipleCategories
        THEN IF \/ (parameter1 # event.category /\ option2 # OptExclude)
                \/ (option2 = OptExclude /\ parameter1 = event.category)
             THEN Skip(<<>>)
             ELSE Keep(<<>>)
        ELSE LET names == GetlineFields(parameter1, ",")
                 categoryFound == \E n \in 1..Len(names) : names[n] = event.category
             IN  IF \/ (option2 # OptExclude /\ ~categoryFound)
                    \/ (option2 = OptExclude /\ categoryFound)
                 THEN Skip(<<>>)
                 ELSE Keep(<<>>)

\* the body of the loop over events, lines 248-321: continue, break or fall
\* through to the output at line 323
ListDecision(event) ==
    IF argc <= 2 THEN Keep(<<>>)
    ELSE IF option1 = OptToday /\ Delta(event) # 0 THEN Skip(<<>>)
    ELSE IF option1 = OptBeforeDate THEN BeforeDateDecision(event)
    ELSE IF option1 = OptAfterDate THEN AfterDateDecision(event)
    ELSE IF option1 = OptDate THEN DateDecision(event)
    ELSE IF option1 = OptCategories THEN CategoriesDecision(event)
    ELSE IF option1 = OptNoCategory
    THEN (IF event.category # <<>> THEN Skip(<<>>) ELSE Keep(<<>>))
    ELSE Keep(<<>>)

\* command == "list": the loop at line 246 starts
StartList ==
    /\ Loaded
    /\ argc > 1
    /\ command = CmdList
    /\ k' = 1
    /\ pc' = "list"
    /\ UNCHANGED <<argv, today, file, stored, tempFile, document, events, i, j,
                   out, err, buf, parsed>>

\* one iteration of the loop at line 246
ListEvent ==
    /\ pc = "list"
    /\ k <= Len(events)
    /\ LET decision == ListDecision(events[k])
       IN  /\ err' = err \o decision.cerr
           /\ IF decision.act = "break"
              THEN /\ out' = Append(out, MissingDate)
                   /\ pc' = "done"
                   /\ UNCHANGED k
              ELSE /\ out' = IF decision.act = "emit"
                             THEN Append(out, EventLine(events[k]))
                             ELSE out
                   /\ k' = k + 1
                   /\ UNCHANGED pc
    /\ UNCHANGED <<argv, today, file, stored, tempFile, document, events, i, j, buf, parsed>>

\* the loop at line 246 has visited every event
EndList ==
    /\ pc = "list"
    /\ k > Len(events)
    /\ pc' = "done"
    /\ UNCHANGED <<argv, today, file, stored, tempFile, document, events, i, k, j,
                   out, err, buf, parsed>>

(***************************************************************************)
(* add (lines 343-358)                                                      *)
(***************************************************************************)
\* date << "," << category << "," << description << "\n"
Row(date, category, description) ==
    date \o <<",">> \o category \o <<",">> \o description

\* command == "add" with 6 or 8 arguments.  The file is opened for appending,
\* which leaves its content alone.  With argc == 6, option1 == "--date" and
\* option2 == "--category" line 350 builds a std::string from argv[6], the
\* null pointer that ends argv: undefined behaviour.  The builds either
\* terminate there (std::logic_error, or a fault in strlen) or go on with a
\* string that is not "--description".
Add ==
    /\ Loaded
    /\ argc > 1
    /\ command = CmdAdd
    /\ argc = 6 \/ argc = 8
    /\ IF option1 = OptCategory /\ argc = 6 /\ option2 = OptDescription
       THEN /\ file' = Append(file, Row(getStringFromDate(today), parameter1, parameter2))
            /\ pc' = "done"
            /\ UNCHANGED out
       ELSE IF option1 = OptDate /\ option2 = OptCategory /\ argc = 6
       THEN \/ /\ pc' = "aborted"
               /\ UNCHANGED <<file, out>>
            \/ /\ out' = Append(out, InvalidOptions)
               /\ pc' = "done"
               /\ UNCHANGED file
       ELSE IF option1 = OptDate /\ option2 = OptCategory /\ ArgAt(6) = OptDescription
       THEN /\ file' = Append(file, Row(parameter1, parameter2, ArgAt(7)))
            /\ pc' = "done"
            /\ UNCHANGED out
       ELSE /\ out' = Append(out, InvalidOptions)
            /\ pc' = "done"
            /\ UNCHANGED file
    /\ UNCHANGED <<argv, today, stored, tempFile, document, events, i, k, j,
                   err, buf, parsed>>

(***************************************************************************)
(* delete (lines 359-385)                                                   *)
(***************************************************************************)
NoFile == [exists |-> FALSE, lines |-> <<>>]

\* lines 361-364: events.csv is opened for reading, tempFile.csv is created
StartDelete ==
    /\ Loaded
    /\ argc > 1
    /\ command = CmdDelete
    /\ argc > 2
    /\ tempFile' = [exists |-> TRUE, lines |-> <<>>]
    /\ j' = 0
    /\ pc' = "delete"
    /\ UNCHANGED <<argv, today, file, stored, document, events, i, k, out, err, buf, parsed>>

\* one iteration of the loop at line 365
DeleteLine ==
    /\ pc = "delete"
    /\ j < Len(file)
    /\ LET text == file[j + 1]
       IN  IF option1 = OptDate /\ StrFind(text, parameter1) # 0
           THEN UNCHANGED tempFile
           ELSE tempFile' = [tempFile EXCEPT !.lines = Append(@, text)]
    /\ j' = j + 1
    /\ UNCHANGED <<argv, today, file, stored, document, events, i, k, out, err, pc, buf, parsed>>

\* a mutant of FinishDelete: the rewritten copy always replaces events.csv
FinishDeleteAlwaysReplaces ==
    /\ pc = "delete"
    /\ j >= Len(file)
    /\ file' = tempFile.lines
    /\ tempFile' = NoFile
    /\ out' = IF ArgAt(argc - 1) # OptDryRun THEN out ELSE Append(out, DryRunNotice)
    /\ pc' = "done"
    /\ UNCHANGED <<argv, today, stored, document, events, i, k, j, err, buf, parsed>>

\* lines 373-385: the copy replaces events.csv, or a dry run throws it away
FinishDelete ==
    /\ pc = "delete"
    /\ j >= Len(file)
    /\ IF ArgAt(argc - 1) # OptDryRun
       THEN /\ file' = tempFile.lines
            /\ UNCHANGED out
       ELSE /\ out' = Append(out, DryRunNotice)
            /\ UNCHANGED file
    /\ tempFile' = NoFile
    /\ pc' = "done"
    /\ UNCHANGED <<argv, today, stored, document, events, i, k, j, err, buf, parsed>>

\* lines 386-387: no branch of the command chain applies
InvalidCommandExit ==
    /\ Loaded
    /\ argc > 1
    /\ command # CmdList
    /\ ~(command = CmdAdd /\ (argc = 6 \/ argc = 8))
    /\ ~(command = CmdDelete /\ argc > 2)
    /\ out' = Append(out, InvalidCommand)
    /\ pc' = "done"
    /\ UNCHANGED <<argv, today, file, stored, tempFile, document, events, i, k, j,
                   err, buf, parsed>>

(***************************************************************************)
(* Inputs                                                                   *)
(***************************************************************************)
\* the largest number of data rows of events.csv
MaxRows == 2

Prog == <<"d", "a", "y", "s">>

CmdOther == <<"s", "h", "o", "w">>

HeaderLine ==
    <<"d", "a", "t", "e", ",", "c", "a", "t", "e", "g", "o", "r", "y", ",",
      "d", "e", "s", "c", "r", "i", "p", "t", "i", "o", "n">>

\* data rows: three on consecutive days, one of them without a category; one
\* whose year field has no digit; one that names no day of the calendar
RowLines ==
    {<<"2", "0", "2", "4", "-", "0", "1", "-", "0", "1", ",", "a", ",", "x">>,
     <<"2", "0", "2", "4", "-", "0", "1", "-", "0", "2", ",", "b", ",", "a">>,
     <<"2", "0", "2", "4", "-", "0", "1", "-", "0", "3", ",", ",", "z">>,
     <<"x", "0", "2", "4", "-", "0", "1", "-", "0", "1", ",", "a", ",", "y">>,
     <<"2", "0", "2", "4", "-", "0", "2", "-", "3", "0", ",", "b", ",", "x">>}

SeqsUpTo(S, n) == UNION {[1..m -> S] : m \in 0..n}

Files == {<<HeaderLine>> \o rows : rows \in SeqsUpTo(RowLines, MaxRows)}

Todays == {Ymd(2024, 1, 2), Ymd(2024, 2, 29)}

\* date parameters: the three days of the rows, a date written without
\* padding, and two that do not parse
DateParams ==
    {<<"2", "0", "2", "4", "-", "0", "1", "-", "0", "1">>,
     <<"2", "0", "2", "4", "-", "0", "1", "-", "0", "2">>,
     <<"2", "0", "2", "4", "-", "0", "1", "-", "0", "3">>,
     <<"2", "0", "2", "4", "-", "1", "-", "0", "0", "3">>,
     <<"b", "a", "d", "-", "d", "a", "t", "e">>,
     <<"x", "0", "2", "4", "-", "0", "1", "-", "0", "1">>}

\* category lists, with and without commas, with leading and trailing commas
CatLists ==
    {<<"a">>,
     <<"a", ",", "b">>,
     <<"a", ",">>,
     <<",", "b">>,
     <<",">>,
     <<>>}

\* arguments of delete --date
DeleteArgs ==
    {<<"2", "0", "2", "4", "-", "0", "1", "-", "0", "1">>,
     <<"a">>,
     <<"x">>,
     <<"-", "0", "1", "-", "0">>,
     <<"q">>,
     <<>>}

ArgA == <<"a">>

ArgX == <<"x">>

ArgDate == <<"2", "0", "2", "4", "-", "0", "1", "-", "0", "1">>

ListArgvs ==
    {<<Prog, CmdList>>}
    \cup {<<Prog, CmdList, o>> :
            o \in {OptToday, OptBeforeDate, OptAfterDate, OptDate, OptCategories,
                   OptNoCategory, OptExclude}}
    \cup {<<Prog, CmdList, o, d>> :
            o \in {OptBeforeDate, OptAfterDate, OptDate}, d \in DateParams}
    \cup {<<Prog, CmdList, OptCategories, c>> : c \in CatLists}
    \cup {<<Prog, CmdList, OptCategories, c, x>> :
            c \in CatLists, x \in {OptExclude, OptToday}}
    \cup {<<Prog, CmdList, OptBeforeDate, d, OptAfterDate>> : d \in DateParams}
    \cup {<<Prog, CmdList, OptBeforeDate, d, o, d2>> :
            d \in DateParams, o \in {OptAfterDate}, d2 \in DateParams}
    \cup {<<Prog, CmdList, OptBeforeDate, ArgDate, OptExclude, ArgDate>>,
          <<Prog, CmdList, OptAfterDate, ArgDate, OptBeforeDate, ArgDate>>,
          <<Prog, CmdList, OptBeforeDate, ArgDate, OptAfterDate, ArgDate, OptExclude>>}

AddArgvs ==
    {<<Prog, CmdAdd>>,
     <<Prog, CmdAdd, OptCategory, ArgA>>,
     <<Prog, CmdAdd, OptCategory, ArgA, OptDescription>>,
     <<Prog, CmdAdd, OptCategory, ArgA, OptDescription, ArgX, OptDryRun>>}
    \cup {<<Prog, CmdAdd, o1, p1, o2, ArgX>> :
            o1 \in {OptCategory, OptDate, OptDescription}, p1 \in {ArgA, ArgDate},
            o2 \in {OptDescription, OptCategory}}
    \cup {<<Prog, CmdAdd, o1, ArgDate, o2, ArgA, o3, ArgX>> :
            o1 \in {OptDate, OptCategory}, o2 \in {OptCategory, OptDescription},
            o3 \in {OptDescription, OptDryRun}}

DeleteArgvs ==
    {<<Prog, CmdDelete>>,
     <<Prog, CmdDelete, OptDate>>,
     <<Prog, CmdDelete, OptDryRun>>,
     <<Prog, CmdDelete, OptDate, OptDryRun>>}
    \cup {<<Prog, CmdDelete, o, x>> : o \in {OptDate, OptCategory}, x \in DeleteArgs}
    \cup {<<Prog, CmdDelete, OptDate, x, o>> : x \in DeleteArgs, o \in {OptDryRun, ArgX}}

ArgvSet == {<<Prog>>, <<Prog, CmdOther>>} \cup ListArgvs \cup AddArgvs \cup DeleteArgvs

NoDocument == [dateStrings |-> <<>>, categoryStrings |-> <<>>, descriptionStrings |-> <<>>]

(***************************************************************************)
(* One run of main                                                          *)
(***************************************************************************)
Init ==
    /\ argv \in ArgvSet
    /\ today \in Todays
    /\ file \in Files
    /\ stored = file
    /\ tempFile = NoFile
    /\ document = NoDocument
    /\ events = <<>>
    /\ i = 0
    /\ k = 0
    /\ j = 0
    /\ out = <<>>
    /\ err = <<>>
    /\ pc = "start"
    /\ buf = <<>>
    /\ parsed = NullOpt

Next ==
    \/ ReadDocument
    \/ LoadRow
    \/ NoCommand
    \/ StartList
    \/ ListEvent
    \/ EndList
    \/ Add
    \/ StartDelete
    \/ DeleteLine
    \/ FinishDelete
    \/ InvalidCommandExit

Spec == Init /\ [][Next]_vars

(***************************************************************************)
(* getDateFromString on its own: one call on a text built from a year       *)
(* field, a month field, a day field and what follows the day               *)
(***************************************************************************)
YearFields ==
    {<<"2", "0", "2", "4">>, <<"2", "0", "2", "3">>, <<"2", "1", "0", "0">>, <<"2", "0", "0", "0">>,
     <<"0", "0", "0", "0">>, <<"2", "0", "2">>, <<"2", "0", "2", "4", "0">>, <<"9", "9", "9", "9", "9">>,
     <<"x", "0", "2", "4">>, <<"+", "0", "2", "4">>, <<" ", "0", "2", "4">>, <<"2", "0", "x", "4">>,
     <<"1">>, <<>>}

MonthFields ==
    {<<"0", "1">>, <<"0", "2">>, <<"0", "4">>, <<"1", "2">>,
     <<"1", "3">>, <<"0", "0">>, <<"1">>, <<"2">>,
     <<"1", "x">>, <<"+", "1">>, <<" ", "1">>, <<"x", "1">>,
     <<"2", "5", "7">>, <<"0", "0", "1">>, <<>>}

DayFields ==
    {<<"0", "1">>, <<"2", "8">>, <<"2", "9">>, <<"3", "0">>,
     <<"3", "1">>, <<"3", "2">>, <<"0", "0">>, <<"1">>,
     <<"0", "0", "1">>, <<"1", "x">>, <<"x", "1">>, <<"0", "0", "0", "1">>,
     <<"+", "1">>, <<"2", "5", "7">>, <<>>}

Suffixes ==
    {<<>>, <<"-">>, <<"-", "1">>, <<"x">>}

OtherTexts ==
    {<<"n", "o", "t", "-", "a", "-", "d", "a", "t", "e">>, <<"2", "0", "2", "4", "/", "0", "1", "/", "0", "1">>, <<"2", "0", "2", "4", "0", "1", "0", "1", "x", "x">>,
     <<"2", "0", "2", "4", "-", "0", "1", " ", "0", "1">>, <<>>}

DateTexts ==
    {y \o <<"-">> \o m \o <<"-">> \o d \o e :
        y \in YearFields, m \in MonthFields, d \in DayFields, e \in Suffixes}
    \cup OtherTexts

InitParse ==
    /\ buf \in DateTexts
    /\ parsed = NullOpt
    /\ pc = "parse"
    /\ argv = <<Prog>>
    /\ today \in Todays
    /\ file = <<HeaderLine>>
    /\ stored = file
    /\ tempFile = NoFile
    /\ document = NoDocument
    /\ events = <<>>
    /\ i = 0
    /\ k = 0
    /\ j = 0
    /\ out = <<>>
    /\ err = <<>>

\* one call of getDateFromString
ParseDate ==
    /\ pc = "parse"
    /\ parsed' = getDateFromString(buf).value
    /\ err' = err \o getDateFromString(buf).cerr
    /\ pc' = "parsed"
    /\ UNCHANGED <<argv, today, file, stored, tempFile, document, events, i, k, j, out, buf>>

NextParse == ParseDate

SpecParse == InitParse /\ [][NextParse]_vars

(***************************************************************************)
(* Properties                                                               *)
(***************************************************************************)
\* A stored row, read by position: date, category, description
RowRecord(line) ==
    Event(getDateFromString(CsvCells(line)[1]).value.value, CsvCells(line)[2], CsvCells(line)[3])

RowParses(line) == getDateFromString(CsvCells(line)[1]).value.has_value

\* the records of the rows whose date parses, in storage order
RECURSIVE RecordsOf(_)
RecordsOf(lines) ==
    IF lines = <<>> THEN <<>>
    ELSE (IF RowParses(Head(lines)) THEN <<RowRecord(Head(lines))>> ELSE <<>>) \o
         RecordsOf(Tail(lines))

Records == RecordsOf(Tail(stored))

LinesOf(records) == [n \in 1..Len(records) |-> EventLine(records[n])]

Returned == pc = "done"

ParameterDate(text) == getDateFromString(text).value

(* C1 *)
RangeInvocation ==
    /\ command = CmdList
    /\ argc = 6
    /\ option1 = OptBeforeDate
    /\ option2 = OptAfterDate
    /\ ParameterDate(parameter1).has_value
    /\ ParameterDate(parameter2).has_value

InRange(record) ==
    /\ YmdLessEq(ParameterDate(parameter2).value, record.timestamp)
    /\ YmdLess(record.timestamp, ParameterDate(parameter1).value)

SingleDateFilterMalformed ==
    /\ command = CmdList
    /\ argc = 4
    /\ option1 \in {OptDate, OptBeforeDate, OptAfterDate}
    /\ ~ParameterDate(parameter1).has_value

\* C2: a single date filter whose date does not parse keeps no record: no
\* event line is written.
C2_MalformedDateKeepsNothing ==
    (Returned /\ SingleDateFilterMalformed) => out = <<>>

(* C3 *)
DateFilterWithoutDate ==
    /\ command = CmdList
    /\ argc = 3
    /\ option1 \in {OptBeforeDate, OptAfterDate}

\* C3: --before-date or --after-date without a date writes "Missing date."
\* exactly once and no event line, whatever is stored.
C3_MissingDateNoticeExactlyOnce ==
    (Returned /\ DateFilterWithoutDate) => out = <<MissingDate>>

(* C4 *)
CategoriesInvocation ==
    /\ command = CmdList
    /\ argc >= 4
    /\ option1 = OptCategories

Exclude == option2 = OptExclude

\* the texts between the commas of a list, as <<first, last>> positions: each
\* starts at the start of the list or after a comma, ends at the end of the
\* list or before a comma, and holds no comma
Segments(list) ==
    {s \in (1..(Len(list) + 1)) \X (0..Len(list)) :
        /\ s[1] <= s[2] + 1
        /\ s[1] = 1 \/ list[s[1] - 1] = ","
        /\ s[2] = Len(list) \/ list[s[2] + 1] = ","
        /\ \A n \in s[1]..s[2] : list[n] # ","}

SplitOnCommas(list) == {SubSeq(list, s[1], s[2]) : s \in Segments(list)}

\* the same, without the empty text that follows a comma ending the list
SplitOnCommasNoTrailingEmpty(list) ==
    IF list = <<>> THEN {<<>>}
    ELSE {SubSeq(list, s[1], s[2]) : s \in {t \in Segments(list) : t[1] <= Len(list)}}

InSplit(record) == (record.category \in SplitOnCommas(parameter1)) # Exclude

InSplitNoTrailingEmpty(record) ==
    (record.category \in SplitOnCommasNoTrailingEmpty(parameter1)) # Exclude

\* C4 as stated: list --categories L keeps exactly the records whose category
\* is one of the texts between the commas of L, and with --exclude exactly
\* the others.
C4_CategoriesKeepSplitNames ==
    (Returned /\ CategoriesInvocation) => out = LinesOf(SelectSeq(Records, InSplit))

\* C4 amended: the names are the texts between the commas of L except the
\* empty text after a comma that ends L; list --categories L keeps exactly
\* the records whose category is one of them, and with --exclude exactly the
\* others.
C4_CategoriesKeepNamesRead ==
    (Returned /\ CategoriesInvocation) =>
        out = LinesOf(SelectSeq(Records, InSplitNoTrailingEmpty))

\* an --exclude run over a list with a comma that kept one record and
\* dropped another
C4_Witness ==
    /\ Returned
    /\ CategoriesInvocation
    /\ Exclude
    /\ IndexOf(parameter1, ",") # 0
    /\ out # <<>>
    /\ Len(out) < Len(Records)

(* C5 *)
NoOptionList == command = CmdList /\ argc = 2

IsRowDiagnostic(line) ==
    Len(line) >= Len(BadDateAtRow) /\ SubSeq(line, 1, Len(BadDateAtRow)) = BadDateAtRow

\* the diagnostics of the rows whose date does not parse; row numbers from 0
RECURSIVE DiagnosticsOf(_, _)
DiagnosticsOf(lines, row) ==
    IF lines = <<>> THEN <<>>
    ELSE (IF RowParses(Head(lines)) THEN <<>>
          ELSE <<BadDateAtRow \o NatToStr(row) \o <<":", " ">> \o CsvCells(Head(lines))[1]>>) \o
         DiagnosticsOf(Tail(lines), row + 1)

AllDigits(s) == s # <<>> /\ \A n \in 1..Len(s) : IsDigit(s[n])

RealDate(y, m, d) ==
    /\ m \in 1..12
    /\ d >= 1
    /\ d <= (IF m = 2 THEN (IF y % 4 = 0 /\ (y % 100 # 0 \/ y % 400 = 0) THEN 29 ELSE 28)
             ELSE IF m \in {4, 6, 9, 11} THEN 30 ELSE 31)

\* the position of the second hyphen of a text that starts "YYYY-"
SecondHyphens(text) == {h \in 7..9 : text[h] = "-"}

WrittenDate(text, h) ==
    Ymd(DigitsValue(SubSeq(text, 1, 4), 0),
        DigitsValue(SubSeq(text, 6, h - 1), 0),
        DigitsValue(SubSeq(text, h + 1, 10), 0))

\* 10 characters: a 4-digit year, a hyphen, a month, a hyphen, a day, all
\* three numbers, naming a day of the calendar; and `date` is that day
IsWrittenDate(text, date) ==
    /\ Len(text) = 10
    /\ AllDigits(SubSeq(text, 1, 4))
    /\ text[5] = "-"
    /\ \E h \in SecondHyphens(text) :
        /\ AllDigits(SubSeq(text, 6, h - 1))
        /\ AllDigits(SubSeq(text, h + 1, 10))
        /\ RealDate(WrittenDate(text, h).y, WrittenDate(text, h).m, WrittenDate(text, h).d)
        /\ date = WrittenDate(text, h)

\* C6: getDateFromString returns a date only for a 10-character text of the
\* shape YYYY-M..-D.. whose three fields are numbers that name a real
\* calendar date, and the date returned is the one written.
C6_DateOnlyFromWellFormedText ==
    (pc = "parsed" /\ parsed.has_value) => IsWrittenDate(buf, parsed.value)

(* C7 *)
DeleteByDate ==
    /\ command = CmdDelete
    /\ argc >= 4
    /\ option1 = OptDate
    /\ ArgAt(argc - 1) # OptDryRun

Contains(line, x) ==
    \E p \in 0..(Len(line) - Len(x)) : SubSeq(line, p + 1, p + Len(x)) = x

LacksParameter(line) == ~Contains(line, parameter1)

\* C7: after delete --date X that is no dry run, events.csv holds exactly the
\* lines it held that do not contain X, in their order.
C7_DeleteRemovesLinesContaining ==
    (Returned /\ DeleteByDate) => file = SelectSeq(stored, LacksParameter)

\* a delete that removed a line holding X after its first character and kept
\* another line
C7_Witness ==
    /\ Returned
    /\ DeleteByDate
    /\ \E n \in 1..Len(stored) :
        /\ Contains(stored[n], parameter1)
        /\ SubSeq(stored[n], 1, Len(parameter1)) # parameter1
    /\ file # <<>>
    /\ Len(file) < Len(stored)

(* C8 *)
DryRunDelete ==
    /\ argc > 2
    /\ command = CmdDelete
    /\ ArgAt(argc - 1) = OptDryRun

\* C8: in a dry run of delete events.csv is, at every point of the run, what
\* it was when the run started.
C8_DryRunLeavesStorageAlone == DryRunDelete => file = stored

\* a dry run that has returned and whose rewritten copy lacked a stored line
C8_Witness ==
    /\ Returned
    /\ DryRunDelete
    /\ option1 = OptDate
    /\ out = <<DryRunNotice>>
    /\ \E n \in 1..Len(stored) : Contains(stored[n], parameter1)
    /\ ~tempFile.exists

(* C9 *)
DeleteDateWithoutValue ==
    /\ command = CmdDelete
    /\ argc = 3
    /\ option1 = OptDate

\* C9: delete --date without a value reports the missing parameter and
\* leaves events.csv as it was.
C9_DeleteWithoutValueHasNoEffect ==
    (Returned /\ DeleteDateWithoutValue) => (file = stored /\ out # <<>>)

(* C10 *)
ShortForm == argc = 6 /\ ArgAt(2) = OptCategory /\ ArgAt(4) = OptDescription

LongForm ==
    argc = 8 /\ ArgAt(2) = OptDate /\ ArgAt(4) = OptCategory /\ ArgAt(6) = OptDescription

\* C10: an add whose option names match neither form writes "Invalid
\* options" and leaves events.csv alone; one that matches appends exactly
\* the row date,category,description.
C10_AddValidatesOptionNames ==
    (pc \in {"done", "aborted"} /\ argc > 1 /\ command = CmdAdd) =>
        IF ShortForm
        THEN file = Append(stored, Row(getStringFromDate(today), ArgAt(3), ArgAt(5)))
        ELSE IF LongForm
        THEN file = Append(stored, Row(ArgAt(3), ArgAt(5), ArgAt(7)))
        ELSE file = stored /\ out = <<InvalidOptions>>

====
